---- MODULE Spec2Model ----
(***************************************************************************)
(* Flodaz Community API (src/server.js): the Express handlers that create  *)
(* posts and comments, like posts, read one post and list posts/comments,  *)
(* against an external relational store and an external identity store.    *)
(*                                                                         *)
(* JavaScript strings that the code takes apart (emails, names) are        *)
(* sequences of one-character strings.  Opaque values (ids, post types,    *)
(* recipe payloads) are TLA+ strings.  An optional string is a set: {} when *)
(* the property is undefined, {s} when it holds the string s.              *)
(*                                                                         *)
(* Every call to the store or the identity provider resolves to a          *)
(* {data, error} result, as the handlers' destructuring expects; a handler *)
(* resumes with that result in the step in which the call takes effect.    *)
(* Tags, images and shares are carried through untouched and left out.     *)
(***************************************************************************)
EXTENDS Integers, Sequences, FiniteSets, TLC

\* ------------------------------------------------------------------------
\* JavaScript string primitives used by the helpers
\* ------------------------------------------------------------------------

LowerCase == <<"a","b","c","d","e","f","g","h","i","j","k","l","m",
               "n","o","p","q","r","s","t","u","v","w","x","y","z">>

UpperCase == <<"A","B","C","D","E","F","G","H","I","J","K","L","M",
               "N","O","P","Q","R","S","T","U","V","W","X","Y","Z">>

\* String.prototype.toUpperCase on one character.
toUpperChar(c) ==
    IF \E i \in 1..Len(LowerCase) : LowerCase[i] = c
    THEN UpperCase[CHOOSE i \in 1..Len(LowerCase) : LowerCase[i] = c]
    ELSE c

toUpperCase(s) == [i \in 1..Len(s) |-> toUpperChar(s[i])]

\* String.prototype.substring(0, n)
substring0(s, n) == IF Len(s) <= n THEN s ELSE SubSeq(s, 1, n)

RECURSIVE splitFrom(_, _, _, _, _)
splitFrom(s, sep, i, cur, acc) ==
    IF i > Len(s) THEN Append(acc, cur)
    ELSE IF s[i] = sep THEN splitFrom(s, sep, i + 1, <<>>, Append(acc, cur))
    ELSE splitFrom(s, sep, i + 1, Append(cur, s[i]), acc)

\* String.prototype.split(sep) for a one-character separator: "a  b" splits
\* into "a", "", "b" and "" splits into one empty token.
split(s, sep) == splitFrom(s, sep, 1, <<>>, <<>>)

RECURSIVE joinFirstChars(_)
\* tokens.map(name => name[0]).join(''): name[0] of an empty token is
\* undefined, which join renders as the empty string.
joinFirstChars(tokens) ==
    IF tokens = <<>> THEN <<>>
    ELSE (IF Head(tokens) = <<>> THEN <<>> ELSE <<Head(tokens)[1]>>)
         \o joinFirstChars(Tail(tokens))

\* JavaScript truthiness of an optional string: undefined and "" are falsy.
Truthy(o) == o # {} /\ o # {<<>>}

Val(o) == CHOOSE s \in o : TRUE

\* a || b for an optional string a and a string b.
OrElse(o, b) == IF Truthy(o) THEN Val(o) ELSE b

\* email.split('@')[0]
emailPrefix(email) == split(email, "@")[1]

\* ------------------------------------------------------------------------
\* Helpers of server.js
\* ------------------------------------------------------------------------

\* A raw identity record is [id, email, full_name, name, username,
\* account_type]; the four metadata properties are optional strings, all
\* undefined when raw_user_meta_data itself is missing (metadata = {}).
\* The email is always there: the identity provider's records carry one.

getUserInfo(authUser) ==
    [id          |-> authUser.id,
     email       |-> authUser.email,
     fullName    |-> IF Truthy(authUser.full_name) THEN Val(authUser.full_name)
                     ELSE OrElse(authUser.name, emailPrefix(authUser.email)),
     username    |-> OrElse(authUser.username, emailPrefix(authUser.email)),
     accountType |-> OrElse(authUser.account_type, <<"f","r","e","e">>)]

\* The getUserInfo declared inside the GET /api/posts/:id handler.
getUserInfoLocal(authUser) ==
    LET fullName  == IF Truthy(authUser.full_name) THEN Val(authUser.full_name)
                     ELSE OrElse(authUser.name, emailPrefix(authUser.email))
        firstName == split(fullName, " ")[1]
        username  == IF Truthy(authUser.username) THEN Val(authUser.username)
                     ELSE IF firstName # <<>> /\ firstName # emailPrefix(authUser.email)
                          THEN firstName
                          ELSE emailPrefix(authUser.email)
    IN  [id          |-> authUser.id,
         email       |-> authUser.email,
         fullName    |-> fullName,
         username    |-> username,
         accountType |-> OrElse(authUser.account_type, <<"f","r","e","e">>)]

createAvatarInitials(fullName) ==
    IF fullName = <<>> THEN <<"U">>
    ELSE substring0(toUpperCase(joinFirstChars(split(fullName, " "))), 2)

\* ------------------------------------------------------------------------
\* State
\* ------------------------------------------------------------------------

VARIABLES
    posts,      \* the store's posts table: a sequence of rows, row i has id i
    comments,   \* the store's comments table, likewise
    req,        \* the request handlers in flight or answered, by slot
    rejected,   \* the last request answered before its handler ever awaited
    now,        \* the clock new Date() reads
    authIn,     \* identity resolution: the raw record handed to getUserInfo
    authOut     \* identity resolution: {} or {the Display Identity returned}

vars == <<posts, comments, req, rejected, now, authIn, authOut>>

\* Number of request slots: the requests one behaviour can hold.
MaxReq == 3

Req == 1..MaxReq

\* ------------------------------------------------------------------------
\* The identity store (auth.users) the handlers run against
\* ------------------------------------------------------------------------

AnnUser ==
    [id |-> "u1", email |-> <<"a","@","x",".","c","o","m">>,
     full_name |-> {<<"A","n","n"," ","L","e","e">>}, name |-> {},
     username |-> {}, account_type |-> {}]

BobUser ==
    [id |-> "u2", email |-> <<"b","o","b","@","x",".","c","o","m">>,
     full_name |-> {}, name |-> {}, username |-> {}, account_type |-> {}]

IdentityStore == {AnnUser, BobUser}

\* ------------------------------------------------------------------------
\* Request inputs
\* ------------------------------------------------------------------------

\* A missing or empty body property is "" (both are falsy); a missing
\* recipe is "null"; a missing or zero postId is 0.
PostBodies ==
    [type : {"", "text", "recipe"}, title : {"", "t"}, content : {"", "c"},
     userId : {"", "u1"}, recipe : {"null", "r1"}]

PathIds == {1, 2}

CommentBodies == [postId : {0, 1, 2}, content : {"", "c"}, userId : {"", "u1"}]

\* ------------------------------------------------------------------------
\* Pieces of the handlers
\* ------------------------------------------------------------------------

Idle == [kind |-> "idle", pc |-> "idle", body |-> [none |-> TRUE], status |-> 0,
         resp |-> [none |-> TRUE], calls |-> <<>>, loc |-> [none |-> TRUE]]

NoRejected == [kind |-> "none", body |-> [none |-> TRUE], status |-> 0,
               resp |-> [none |-> TRUE], calls |-> <<>>]

HasPost(ps, id) == id \in 1..Len(ps)

Anonymous == [fullName |-> <<"A","n","o","n","y","m","o","u","s">>,
              username |-> <<"a","n","o","n","y","m","o","u","s">>]

author(userInfo) ==
    [name |-> userInfo.fullName, username |-> userInfo.username,
     avatar |-> createAvatarInitials(userInfo.fullName)]

\* supabase.auth.admin.getUserById(userId): {user} on success, {} with an
\* error when the lookup fails or the id is unknown.
getUserByIdResults(userId) == {{}} \cup {{u} : u \in {x \in IdentityStore : x.id = userId}}

\* let userInfo = Anonymous; if (!userError && user) userInfo = getUserInfo(user)
responseUserInfo(found) ==
    IF found = {} THEN Anonymous
    ELSE LET i == getUserInfo(Val(found)) IN [fullName |-> i.fullName, username |-> i.username]

\* -- POST /api/posts ------------------------------------------------------

\* A validation that forgets the userId check.
PostBodyValidWithoutUserId(b) == b.type # "" /\ b.title # "" /\ b.content # ""

PostBodyValid(b) == b.type # "" /\ b.title # "" /\ b.content # "" /\ b.userId # ""

PostRejection(b) ==
    IF b.type = "" \/ b.title = "" \/ b.content = ""
    THEN [error |-> "Type, title, and content are required"]
    ELSE [error |-> "User ID is required"]

\* A postData that attaches the recipe whatever the type.
postDataWithAnyRecipe(b, t) ==
    [type |-> b.type, title |-> b.title, content |-> b.content, user_id |-> b.userId,
     likes |-> 0, comment_count |-> 0, created_at |-> t,
     recipe_data |-> b.recipe]

postData(b, t) ==
    [type |-> b.type, title |-> b.title, content |-> b.content, user_id |-> b.userId,
     likes |-> 0, comment_count |-> 0, created_at |-> t,
     recipe_data |-> IF b.type = "recipe" /\ b.recipe # "null" THEN b.recipe ELSE "null"]

\* .from('posts').insert([postData]).select().single(): the store assigns the id.
insertedPost(ps, data) ==
    [id |-> Len(ps) + 1, user_id |-> data.user_id, type |-> data.type,
     title |-> data.title, content |-> data.content, recipe_data |-> data.recipe_data,
     likes |-> data.likes, comment_count |-> data.comment_count,
     created_at |-> data.created_at]

transformedPost(newPost, userInfo) ==
    [id |-> newPost.id, type |-> newPost.type, title |-> newPost.title,
     content |-> newPost.content, likes |-> 0, comments |-> 0,
     timestamp |-> "Just now", author |-> author(userInfo),
     recipe |-> newPost.recipe_data]

\* The handler up to its first await: validation, postData, the insert issued.
createPostStarted(b, t) ==
    [kind |-> "createPost", pc |-> "insert", body |-> b, status |-> 0,
     resp |-> [none |-> TRUE], calls |-> <<"posts.insert">>,
     loc |-> [postData |-> postData(b, t)]]

\* The handler resumed with the insert's result {data: newPost, error}.
createPostInserted(c, error, newPost) ==
    IF error
    THEN [c EXCEPT !.pc = "done", !.status = 500,
                   !.resp = [error |-> "Failed to create post"]]
    ELSE [c EXCEPT !.pc = "getUser", !.loc = [newPost |-> newPost],
                   !.calls = Append(@, "auth.getUserById")]

\* The handler resumed with getUserById's result.
createPostResponded(c, found) ==
    [c EXCEPT !.pc = "done", !.status = 201,
              !.resp = [message |-> "Post created successfully",
                        post |-> transformedPost(c.loc.newPost, responseUserInfo(found))]]

\* -- POST /api/posts/:id/like ---------------------------------------------

likeStarted(id) ==
    [kind |-> "like", pc |-> "fetch", body |-> [id |-> id], status |-> 0,
     resp |-> [none |-> TRUE], calls |-> <<"posts.select">>, loc |-> [none |-> TRUE]]

\* .from('posts').select('likes').eq('id', postId).single(): a store failure,
\* no row (single() reports PGRST116 as an error), or the row's likes.
selectLikesResults(ps, id) ==
    {[error |-> "failure", post |-> {}]}
    \cup (IF HasPost(ps, id) THEN {[error |-> "none", post |-> {[likes |-> ps[id].likes]}]}
          ELSE {[error |-> "PGRST116", post |-> {}]})

\* const newLikesCount = (post.likes || 0) + 1; likes is never null in a row
\* this server wrote.
newLikesCount(post) == post.likes + 1

\* The handler resumed with the select's result {data: post, error: fetchError}.
likeFetched(c, res) ==
    IF res.error # "none" \/ res.post = {}
    THEN [c EXCEPT !.pc = "done", !.status = 404, !.resp = [error |-> "Post not found"],
                   !.loc = [fetchError |-> res.error, post |-> res.post]]
    ELSE [c EXCEPT !.pc = "update", !.calls = Append(@, "posts.update"),
                   !.loc = [fetchError |-> res.error, post |-> res.post,
                            newLikesCount |-> newLikesCount(Val(res.post))]]

\* What an atomic increment at the store would do instead of the update below.
likesUpdatedAtomically(ps, id, n) ==
    [i \in 1..Len(ps) |-> IF i = id THEN [ps[i] EXCEPT !.likes = @ + 1] ELSE ps[i]]

\* .from('posts').update({ likes: newLikesCount }).eq('id', postId) at the store.
likesUpdated(ps, id, n) ==
    [i \in 1..Len(ps) |-> IF i = id THEN [ps[i] EXCEPT !.likes = n] ELSE ps[i]]

\* The handler resumed with the update's result {error: updateError}.
likeUpdated(c, updateError) ==
    IF updateError
    THEN [c EXCEPT !.pc = "done", !.status = 500,
                   !.resp = [error |-> "Failed to like post"],
                   !.loc = @ @@ [updateError |-> TRUE]]
    ELSE [c EXCEPT !.pc = "done", !.status = 200,
                   !.resp = [message |-> "Post liked", liked |-> TRUE,
                             likes |-> c.loc.newLikesCount],
                   !.loc = @ @@ [updateError |-> FALSE]]

\* -- GET /api/posts/:id ---------------------------------------------------

getPostStarted(id) ==
    [kind |-> "getPost", pc |-> "fetch", body |-> [id |-> id], status |-> 0,
     resp |-> [none |-> TRUE], calls |-> <<"posts.select">>, loc |-> [none |-> TRUE]]

\* .from('posts').select('*').eq('id', postId).single()
selectPostResults(ps, id) ==
    {[error |-> "failure", post |-> {}]}
    \cup (IF HasPost(ps, id) THEN {[error |-> "none", post |-> {ps[id]}]}
          ELSE {[error |-> "PGRST116", post |-> {}]})

\* The handler resumed with the select's result.  With a row in hand it
\* evaluates res.json({ post: transformedPost }); transformedPost is declared
\* nowhere, the ReferenceError lands in the catch block.
getPostFetched(c, res) ==
    IF res.error # "none" \/ res.post = {}
    THEN [c EXCEPT !.pc = "done", !.status = 404, !.resp = [error |-> "Post not found"],
                   !.loc = [error |-> res.error, post |-> res.post]]
    ELSE [c EXCEPT !.pc = "done", !.status = 500,
                   !.resp = [error |-> "Failed to fetch post"],
                   !.loc = [error |-> res.error, post |-> res.post]]

\* -- POST /api/comments ---------------------------------------------------

CommentBodyValid(b) == b.postId # 0 /\ b.content # "" /\ b.userId # ""

CommentRejection(b) ==
    IF b.postId = 0 \/ b.content = ""
    THEN [error |-> "Post ID and content are required"]
    ELSE [error |-> "User ID is required"]

commentData(b, t) ==
    [post_id |-> b.postId, user_id |-> b.userId, content |-> b.content, created_at |-> t]

insertedComment(cs, data) ==
    [id |-> Len(cs) + 1, post_id |-> data.post_id, user_id |-> data.user_id,
     content |-> data.content, created_at |-> data.created_at]

createCommentStarted(b, t, known) ==
    [kind |-> "createComment", pc |-> "insert", body |-> b, status |-> 0,
     resp |-> [none |-> TRUE], calls |-> <<"comments.insert">>,
     loc |-> [commentData |-> commentData(b, t), postKnown |-> known]]

\* A handler that goes on to the rpc although the insert failed.
createCommentInsertedOrNot(c, commentError, newComment) ==
    [c EXCEPT !.pc = "rpc", !.calls = Append(@, "rpc.increment_comment_count"),
              !.loc = [commentError |-> FALSE, postKnown |-> c.loc.postKnown,
                       newComment |-> newComment]]

\* The handler resumed with the insert's result {data: newComment, error}.
createCommentInserted(c, commentError, newComment) ==
    IF commentError
    THEN [c EXCEPT !.pc = "done", !.status = 500,
                   !.resp = [error |-> "Failed to create comment"],
                   !.loc = [commentError |-> TRUE, postKnown |-> c.loc.postKnown]]
    ELSE [c EXCEPT !.pc = "rpc", !.calls = Append(@, "rpc.increment_comment_count"),
                   !.loc = [commentError |-> FALSE, postKnown |-> c.loc.postKnown,
                            newComment |-> newComment]]

\* The store's increment_comment_count(post_id) function: one atomic
\* UPDATE posts SET comment_count = comment_count + 1 WHERE id = post_id.
increment_comment_count(ps, id) ==
    [i \in 1..Len(ps) |->
        IF i = id THEN [ps[i] EXCEPT !.comment_count = @ + 1] ELSE ps[i]]

\* The rpc handed the new comment's id where the post's id belongs.
commentCountUpdatedByCommentId(ps, c) == increment_comment_count(ps, c.loc.newComment.id)

\* supabase.rpc('increment_comment_count', { post_id: parseInt(postId) })
commentCountUpdated(ps, c) == increment_comment_count(ps, c.body.postId)

\* A handler that answers 500 when the increment fails.
createCommentCountedOrFailed(c, updateError) ==
    IF updateError
    THEN [c EXCEPT !.pc = "done", !.status = 500,
                   !.resp = [error |-> "Failed to create comment"],
                   !.loc = @ @@ [updateError |-> updateError]]
    ELSE [c EXCEPT !.pc = "getUser", !.calls = Append(@, "auth.getUserById"),
                   !.loc = @ @@ [updateError |-> updateError]]

\* The handler resumed with the rpc's result {error: updateError}: the error
\* is logged and the handler goes on to getUserById.
createCommentCounted(c, updateError) ==
    [c EXCEPT !.pc = "getUser", !.calls = Append(@, "auth.getUserById"),
              !.loc = @ @@ [updateError |-> updateError]]

createCommentResponded(c, found) ==
    [c EXCEPT !.pc = "done", !.status = 201,
              !.resp = [message |-> "Comment created successfully",
                        comment |-> [id |-> c.loc.newComment.id,
                                     content |-> c.loc.newComment.content,
                                     timestamp |-> "Just now",
                                     author |-> author(responseUserInfo(found))]]]

\* ------------------------------------------------------------------------
\* The mutation handlers and GET /api/posts/:id, one action per resumption
\* ------------------------------------------------------------------------

\* Slots are taken in order: which slot a request lands in means nothing.
CanBegin(r) == req[r].kind = "idle" /\ (IF r = 1 THEN TRUE ELSE req[r - 1].kind # "idle")

At(r, kind, pc) == req[r].kind = kind /\ req[r].pc = pc

CreatePostReject(b) ==
    /\ ~PostBodyValid(b)
    /\ rejected' = [kind |-> "createPost", body |-> b, status |-> 400,
                    resp |-> PostRejection(b), calls |-> <<>>]
    /\ UNCHANGED <<posts, comments, req, now, authIn, authOut>>

CreatePostBegin(r, b) ==
    /\ CanBegin(r)
    /\ PostBodyValid(b)
    /\ req' = [req EXCEPT ![r] = createPostStarted(b, now)]
    /\ now' = now + 1
    /\ UNCHANGED <<posts, comments, rejected, authIn, authOut>>

\* The insert is answered and, unless the handler has responded by then,
\* getUserById is.  The identity store is one nothing here writes, so when its
\* answer arrives orders nothing: the lookup is taken in the step of the
\* write before it.
CreatePostInsert(r, error) ==
    /\ At(r, "createPost", "insert")
    /\ LET newPost == insertedPost(posts, req[r].loc.postData)
           c == createPostInserted(req[r], error, newPost)
       IN  /\ posts' = IF error THEN posts ELSE Append(posts, newPost)
           /\ \E found \in getUserByIdResults(req[r].body.userId) :
                 req' = [req EXCEPT ![r] =
                    IF c.pc = "done" THEN c ELSE createPostResponded(c, found)]
    /\ UNCHANGED <<comments, rejected, now, authIn, authOut>>

LikeBegin(r, id) ==
    /\ CanBegin(r)
    /\ req' = [req EXCEPT ![r] = likeStarted(id)]
    /\ UNCHANGED <<posts, comments, rejected, now, authIn, authOut>>

LikeFetch(r) ==
    /\ At(r, "like", "fetch")
    /\ \E res \in selectLikesResults(posts, req[r].body.id) :
            req' = [req EXCEPT ![r] = likeFetched(req[r], res)]
    /\ UNCHANGED <<posts, comments, rejected, now, authIn, authOut>>

LikeUpdate(r, updateError) ==
    /\ At(r, "like", "update")
    /\ posts' = IF updateError THEN posts
                ELSE likesUpdated(posts, req[r].body.id, req[r].loc.newLikesCount)
    /\ req' = [req EXCEPT ![r] = likeUpdated(req[r], updateError)]
    /\ UNCHANGED <<comments, rejected, now, authIn, authOut>>

GetPostBegin(r, id) ==
    /\ CanBegin(r)
    /\ req' = [req EXCEPT ![r] = getPostStarted(id)]
    /\ UNCHANGED <<posts, comments, rejected, now, authIn, authOut>>

GetPostFetch(r) ==
    /\ At(r, "getPost", "fetch")
    /\ \E res \in selectPostResults(posts, req[r].body.id) :
            req' = [req EXCEPT ![r] = getPostFetched(req[r], res)]
    /\ UNCHANGED <<posts, comments, rejected, now, authIn, authOut>>

CreateCommentReject(b) ==
    /\ ~CommentBodyValid(b)
    /\ rejected' = [kind |-> "createComment", body |-> b, status |-> 400,
                    resp |-> CommentRejection(b), calls |-> <<>>]
    /\ UNCHANGED <<posts, comments, req, now, authIn, authOut>>

CreateCommentBegin(r, b) ==
    /\ CanBegin(r)
    /\ CommentBodyValid(b)
    /\ req' = [req EXCEPT ![r] = createCommentStarted(b, now, HasPost(posts, b.postId))]
    /\ now' = now + 1
    /\ UNCHANGED <<posts, comments, rejected, authIn, authOut>>

CreateCommentInsert(r, commentError) ==
    /\ At(r, "createComment", "insert")
    /\ LET newComment == insertedComment(comments, req[r].loc.commentData)
       IN  /\ comments' = IF commentError THEN comments ELSE Append(comments, newComment)
           /\ req' = [req EXCEPT ![r] = createCommentInserted(req[r], commentError, newComment)]
    /\ UNCHANGED <<posts, rejected, now, authIn, authOut>>

\* The rpc is answered, with an error or not, and then getUserById is (taken
\* in the same step, as in CreatePostInsert).
CreateCommentRpc(r, updateError) ==
    /\ At(r, "createComment", "rpc")
    /\ posts' = IF updateError THEN posts ELSE commentCountUpdated(posts, req[r])
    /\ LET c == createCommentCounted(req[r], updateError)
       IN  \E found \in getUserByIdResults(req[r].body.userId) :
             req' = [req EXCEPT ![r] =
                IF c.pc = "done" THEN c ELSE createCommentResponded(c, found)]
    /\ UNCHANGED <<comments, rejected, now, authIn, authOut>>

\* The store holds one post, as CreatePost leaves it, when the server starts.
InitialPost ==
    [id |-> 1, user_id |-> "u1", type |-> "text", title |-> "t", content |-> "c",
     recipe_data |-> "null", likes |-> 0, comment_count |-> 0, created_at |-> 0]

Init ==
    /\ posts = <<InitialPost>>
    /\ comments = <<>>
    /\ req = [r \in Req |-> Idle]
    /\ rejected = NoRejected
    /\ now = 0
    /\ authIn = AnnUser
    /\ authOut = {}

\* -- GET /api/posts ----------------------------------------------------------

\* The query's defaults: const { page = 1, limit = 10, type } = req.query
DefaultPage == 1

DefaultLimit == 10

PostQueries == [page : {DefaultPage, 2}, limit : {1, DefaultLimit}, type : {"", "all", "recipe"}]

\* new Date(created_at).toLocaleString(): a rendering of the stored instant.
toLocaleString(t) == <<"locale", t>>

IsInjective(f) == \A i, j \in DOMAIN f : f[i] = f[j] => i = j

\* .order('created_at', { ascending: false }): every order of the rows that
\* descends by created_at; the store breaks ties as it likes.
orderings(rows) ==
    {f \in [1..Cardinality(rows) -> rows] :
        /\ IsInjective(f)
        /\ \A i \in 1..(Cardinality(rows) - 1) : f[i].created_at >= f[i + 1].created_at}

\* .range(from, to), both inclusive and counted from 0.
range(rows, from, to) ==
    IF from + 1 > Len(rows) THEN <<>>
    ELSE SubSeq(rows, from + 1, IF to + 1 < Len(rows) THEN to + 1 ELSE Len(rows))

\* if (type && type !== 'all') query = query.eq('type', type)
typeFiltered(ps, type) ==
    {ps[i] : i \in {k \in 1..Len(ps) : type = "" \/ type = "all" \/ ps[k].type = type}}

selectPostsResults(ps, q) ==
    LET offset == (q.page - 1) * q.limit
    IN  {[error |-> TRUE, data |-> <<>>]}
        \cup {[error |-> FALSE, data |-> range(o, offset, offset + q.limit - 1)] :
                o \in orderings(typeFiltered(ps, q.type))}

\* supabase.auth.admin.listUsers(...): {data: {users}, error}.  On an error
\* users is empty; otherwise it is whichever identity records the provider's
\* page holds.
listUsersResults == {[error |-> TRUE, users |-> {}]}
                    \cup {[error |-> FALSE, users |-> U] : U \in SUBSET IdentityStore}

\* users.users.forEach(user => { userMap[user.id] = getUserInfo(user) })
userMapOf(users) == {getUserInfo(u) : u \in users}

\* A lookup whose fallback carries no name.
lookupUserWithoutName(userMap, id) ==
    IF \E i \in userMap : i.id = id
    THEN LET i == CHOOSE i \in userMap : i.id = id
         IN  [fullName |-> i.fullName, username |-> i.username]
    ELSE [fullName |-> <<>>, username |-> <<"a","n","o","n","y","m","o","u","s">>]

\* userMap[id] || { fullName: 'Anonymous', username: 'anonymous' }
lookupUser(userMap, id) ==
    IF \E i \in userMap : i.id = id
    THEN LET i == CHOOSE i \in userMap : i.id = id
         IN  [fullName |-> i.fullName, username |-> i.username]
    ELSE Anonymous

transformedPosts(rows, userMap) ==
    [k \in 1..Len(rows) |->
        [id |-> rows[k].id, type |-> rows[k].type, title |-> rows[k].title,
         content |-> rows[k].content, likes |-> rows[k].likes,
         comments |-> rows[k].comment_count, liked |-> FALSE, bookmarked |-> FALSE,
         timestamp |-> toLocaleString(rows[k].created_at),
         author |-> author(lookupUser(userMap, rows[k].user_id)),
         recipe |-> rows[k].recipe_data]]

getPostsStarted(q) ==
    [kind |-> "getPosts", pc |-> "fetch", body |-> q, status |-> 0,
     resp |-> [none |-> TRUE], calls |-> <<"posts.select">>, loc |-> [none |-> TRUE]]

getPostsFetched(c, res) ==
    IF res.error
    THEN [c EXCEPT !.pc = "done", !.status = 500, !.resp = [error |-> "Failed to fetch posts"]]
    ELSE [c EXCEPT !.pc = "users", !.calls = Append(@, "auth.listUsers"),
                   !.loc = [posts |-> res.data]]

\* GET /api/posts logs usersError and builds the map from users.users anyway.
getPostsResponded(c, res) ==
    LET rows == c.loc.posts
    IN  [c EXCEPT !.pc = "done", !.status = 200,
                  !.loc = [posts |-> rows, users |-> res.users],
                  !.resp = [posts |-> transformedPosts(rows, userMapOf(res.users)),
                            pagination |-> [page |-> c.body.page, limit |-> c.body.limit,
                                            total |-> Len(rows),
                                            hasMore |-> Len(rows) = c.body.limit]]]

\* -- GET /api/comments/:postId ---------------------------------------------

selectCommentsResults(cs, postId) ==
    {[error |-> TRUE, data |-> <<>>]}
    \cup {[error |-> FALSE, data |-> o] :
            o \in orderings({cs[i] : i \in {k \in 1..Len(cs) : cs[k].post_id = postId}})}

transformedComments(rows, userMap) ==
    [k \in 1..Len(rows) |->
        [id |-> rows[k].id, content |-> rows[k].content,
         timestamp |-> toLocaleString(rows[k].created_at),
         author |-> author(lookupUser(userMap, rows[k].user_id))]]

getCommentsStarted(id) ==
    [kind |-> "getComments", pc |-> "fetch", body |-> [postId |-> id], status |-> 0,
     resp |-> [none |-> TRUE], calls |-> <<"comments.select">>, loc |-> [none |-> TRUE]]

getCommentsFetched(c, res) ==
    IF res.error
    THEN [c EXCEPT !.pc = "done", !.status = 500,
                   !.resp = [error |-> "Failed to fetch comments"]]
    ELSE [c EXCEPT !.pc = "users", !.calls = Append(@, "auth.listUsers"),
                   !.loc = [comments |-> res.data]]

\* if (users && users.users && !usersError) fills the map; else it stays empty.
getCommentsResponded(c, res) ==
    LET rows == c.loc.comments
        userMap == IF res.error THEN {} ELSE userMapOf(res.users)
    IN  [c EXCEPT !.pc = "done", !.status = 200,
                  !.loc = [comments |-> rows, users |-> IF res.error THEN {} ELSE res.users],
                  !.resp = [comments |-> transformedComments(rows, userMap)]]

GetPostsBegin(r, q) ==
    /\ CanBegin(r)
    /\ req' = [req EXCEPT ![r] = getPostsStarted(q)]
    /\ UNCHANGED <<posts, comments, rejected, now, authIn, authOut>>

GetPostsFetch(r) ==
    /\ At(r, "getPosts", "fetch")
    /\ \E res \in selectPostsResults(posts, req[r].body) :
            req' = [req EXCEPT ![r] = getPostsFetched(req[r], res)]
    /\ UNCHANGED <<posts, comments, rejected, now, authIn, authOut>>

GetPostsRespond(r) ==
    /\ At(r, "getPosts", "users")
    /\ \E res \in listUsersResults :
            req' = [req EXCEPT ![r] = getPostsResponded(req[r], res)]
    /\ UNCHANGED <<posts, comments, rejected, now, authIn, authOut>>

GetCommentsBegin(r, id) ==
    /\ CanBegin(r)
    /\ req' = [req EXCEPT ![r] = getCommentsStarted(id)]
    /\ UNCHANGED <<posts, comments, rejected, now, authIn, authOut>>

GetCommentsFetch(r) ==
    /\ At(r, "getComments", "fetch")
    /\ \E res \in selectCommentsResults(comments, req[r].body.postId) :
            req' = [req EXCEPT ![r] = getCommentsFetched(req[r], res)]
    /\ UNCHANGED <<posts, comments, rejected, now, authIn, authOut>>

GetCommentsRespond(r) ==
    /\ At(r, "getComments", "users")
    /\ \E res \in listUsersResults :
            req' = [req EXCEPT ![r] = getCommentsResponded(req[r], res)]
    /\ UNCHANGED <<posts, comments, rejected, now, authIn, authOut>>

\* -- identity resolution ----------------------------------------------------

\* userMap[user.id] = getUserInfo(user) and userInfo = getUserInfo(user): the
\* one helper every feed, comment and create response resolves authors with.
ResolveIdentity ==
    /\ authOut = {}
    /\ authOut' = {getUserInfo(authIn)}
    /\ UNCHANGED <<posts, comments, req, rejected, now, authIn>>

\* ------------------------------------------------------------------------
\* Specifications
\* ------------------------------------------------------------------------

CreatePostSteps(R) ==
    \/ \E r \in R, b \in PostBodies : CreatePostBegin(r, b)
    \/ \E r \in R, error \in BOOLEAN : CreatePostInsert(r, error)

LikeSteps(R) ==
    \/ \E r \in R, id \in PathIds : LikeBegin(r, id)
    \/ \E r \in R : LikeFetch(r)
    \/ \E r \in R, updateError \in BOOLEAN : LikeUpdate(r, updateError)

CreateCommentSteps(R) ==
    \/ \E r \in R, b \in CommentBodies : CreateCommentBegin(r, b)
    \/ \E r \in R, commentError \in BOOLEAN : CreateCommentInsert(r, commentError)
    \/ \E r \in R, updateError \in BOOLEAN : CreateCommentRpc(r, updateError)

Rejections ==
    \/ \E b \in PostBodies : CreatePostReject(b)
    \/ \E b \in CommentBodies : CreateCommentReject(b)

ReadSteps(R) ==
    \/ \E r \in R, id \in PathIds : GetPostBegin(r, id)
    \/ \E r \in R : GetPostFetch(r)
    \/ \E r \in R, q \in PostQueries : GetPostsBegin(r, q)
    \/ \E r \in R : GetPostsFetch(r)
    \/ \E r \in R : GetPostsRespond(r)
    \/ \E r \in R, id \in PathIds : GetCommentsBegin(r, id)
    \/ \E r \in R : GetCommentsFetch(r)
    \/ \E r \in R : GetCommentsRespond(r)

\* The three handlers that write the store, any number of them interleaved.
Next == CreatePostSteps(Req) \/ LikeSteps(Req) \/ CreateCommentSteps(Req)

Spec == Init /\ [][Next]_vars

\* Concurrent likes alone.
SpecLike == Init /\ [][LikeSteps(Req)]_vars

\* Concurrent comment creations alone.
SpecComment == Init /\ [][CreateCommentSteps(Req)]_vars

\* Concurrent post creations alone.
SpecCreate == Init /\ [][CreatePostSteps(Req)]_vars

\* One post creation (slot 1) with likes and comment creations (the other
\* slots) interleaved with it and with each other. The slots begin in order,
\* and a Begin step touches no store; the store calls interleave freely.
SpecCount ==
    Init /\ [][CreatePostSteps({1}) \/ LikeSteps(Req \ {1})
                  \/ CreateCommentSteps(Req \ {1})]_vars

\* One request at a time, valid or not, through both validating handlers.
SpecValidate ==
    Init /\ [][Rejections \/ CreatePostSteps({1}) \/ CreateCommentSteps({1})]_vars

\* The rows a store can hold when a read arrives: MaxRows rows at most, each
\* as its create handler wrote it, authors known (u1) and unknown (u3) to the
\* identity store, creation instants that tie or differ.
MaxRows == 2

StoredPostBodies ==
    {b \in [type : {"text", "recipe"}, title : {"t"}, content : {"c"},
            userId : {"u1", "u3"}, recipe : {"null", "r1"}] :
        (b.type = "recipe") <=> (b.recipe = "r1")}

StoredCommentBodies == [postId : {1, 2}, content : {"c"}, userId : {"u1", "u3"}]

RECURSIVE PostStores(_)
PostStores(n) ==
    IF n = 0 THEN {<<>>}
    ELSE {Append(ps, insertedPost(ps, postData(b, t))) :
            ps \in PostStores(n - 1), b \in StoredPostBodies, t \in {0, 1}}

RECURSIVE CommentStores(_)
CommentStores(n) ==
    IF n = 0 THEN {<<>>}
    ELSE {Append(cs, insertedComment(cs, commentData(b, t))) :
            cs \in CommentStores(n - 1), b \in StoredCommentBodies, t \in {0, 1}}

InitRead ==
    /\ \E n \in 0..MaxRows, m \in 0..MaxRows :
          /\ n + m <= MaxRows
          /\ posts \in PostStores(n)
          /\ comments \in CommentStores(m)
    /\ req = [r \in Req |-> Idle]
    /\ rejected = NoRejected
    /\ now = 2
    /\ authIn = AnnUser
    /\ authOut = {}

\* One read request against any such store.
SpecRead == InitRead /\ [][ReadSteps({1})]_vars

\* The raw identity records getUserInfo is handed.
Emails == {<<"a","@","x",".","c","o","m">>, <<"a","n","n","@","x",".","c","o","m">>,
           <<"j",".","d","o","e","@","x",".","c","o","m">>}

Names == {{}, {<<>>}, {<<"A","n","n"," ","L","e","e">>}, {<<"a","n","n">>}, {<<"a">>}}

Usernames == {{}, {<<>>}, {<<"a","n","n","l">>}}

AccountTypes == {{}, {<<"p","r","o">>}}

RawUsers ==
    [id : {"u1"}, email : Emails, full_name : Names, name : Names,
     username : Usernames, account_type : AccountTypes]

InitIdentity ==
    /\ posts = <<InitialPost>>
    /\ comments = <<>>
    /\ req = [r \in Req |-> Idle]
    /\ rejected = NoRejected
    /\ now = 0
    /\ authIn \in RawUsers
    /\ authOut = {}

SpecIdentity == InitIdentity /\ [][ResolveIdentity]_vars

\* ------------------------------------------------------------------------
\* Properties
\* ------------------------------------------------------------------------

LikeDone(r, status) == req[r].kind = "like" /\ req[r].pc = "done" /\ req[r].status = status

\* C1: LikePost is a read-then-write.  Whenever a like's update succeeds, the
\* stored like count becomes the count that request read plus one, whatever
\* the store holds by then, and that is what its 200 response reports; so two
\* requests that read the same n can both answer 200 and leave n + 1.
C1_LikeWritesWhatItRead ==
    [][\A r \in Req :
          (req[r].kind = "like" /\ req[r].pc = "update" /\ req'[r].status = 200)
          => /\ posts'[req[r].body.id].likes = Val(req[r].loc.post).likes + 1
             /\ req'[r].resp.likes = Val(req[r].loc.post).likes + 1]_vars

\* Two likes of one post read the same count n, both answered 200, and the
\* store holds n + 1: one increment is lost.
C1_LostUpdate ==
    \E r1, r2 \in Req :
        /\ r1 # r2
        /\ LikeDone(r1, 200) /\ LikeDone(r2, 200)
        /\ req[r1].body.id = req[r2].body.id
        /\ Val(req[r1].loc.post).likes = Val(req[r2].loc.post).likes
        /\ posts[req[r1].body.id].likes = Val(req[r1].loc.post).likes + 1

\* C2: a post's stored like count is a non-negative integer that no step
\* ever lowers.
C2_LikesNeverDecrease ==
    [][\A i \in 1..Len(posts) :
          posts[i].likes >= 0 /\ posts'[i].likes >= posts[i].likes]_vars

CommentRequests == {r \in Req : req[r].kind = "createComment"}

\* Every comment request so far named a stored post and is answered 201, its
\* insert and its increment_comment_count call both having succeeded.
AllCommentsSucceeded ==
    \A r \in CommentRequests :
        /\ req[r].pc = "done" /\ req[r].status = 201
        /\ req[r].loc.postKnown /\ ~req[r].loc.updateError

\* C3: when every comment insert and every increment_comment_count call has
\* succeeded and all requests are answered, each post's comment_count has
\* grown (from 0) by exactly the number of comment requests on it, however
\* the requests interleaved.
C3_CommentCountExact ==
    AllCommentsSucceeded =>
        \A i \in 1..Len(posts) :
            posts[i].comment_count =
                Cardinality({r \in CommentRequests : req[r].body.postId = i})

\* Two comment requests on post 1 overlapped (the one that began first was
\* inserted second), both succeeded, and the count is 2.
C3_OverlappingComments ==
    /\ AllCommentsSucceeded
    /\ \E r1, r2 \in CommentRequests :
          /\ r1 < r2
          /\ req[r1].body.postId = 1 /\ req[r2].body.postId = 1
          /\ req[r1].loc.newComment.id > req[r2].loc.newComment.id
    /\ posts[1].comment_count >= 2

\* C4: once a comment's insert has succeeded the Comment Record stays stored,
\* and the request is answered 201 with that comment whether or not the
\* increment_comment_count call failed.
C4_CommentBestEffort ==
    \A r \in CommentRequests :
        (req[r].pc \in {"rpc", "done"} /\ ~req[r].loc.commentError) =>
            /\ req[r].loc.newComment.id \in 1..Len(comments)
            /\ comments[req[r].loc.newComment.id] = req[r].loc.newComment
            /\ req[r].loc.newComment.content = req[r].body.content
            /\ req[r].loc.newComment.post_id = req[r].body.postId
            /\ req[r].pc = "done" =>
                  /\ req[r].status = 201
                  /\ req[r].resp.comment.id = req[r].loc.newComment.id
                  /\ req[r].resp.comment.content = req[r].body.content

\* A comment answered 201 although its increment_comment_count call failed:
\* the comment is stored and the post's count is one short.
C4_IncrementFailedStill201 ==
    \E r \in CommentRequests :
        /\ req[r].pc = "done" /\ req[r].status = 201 /\ req[r].loc.updateError
        /\ req[r].body.postId = 1
        /\ comments[req[r].loc.newComment.id] = req[r].loc.newComment
        /\ posts[1].comment_count < Cardinality({k \in 1..Len(comments) : comments[k].post_id = 1})

C5_PostMissing(b) == b.type = "" \/ b.title = "" \/ b.content = "" \/ b.userId = ""

C5_CommentMissing(b) == b.postId = 0 \/ b.content = "" \/ b.userId = ""

\* What C5 says of each state: the request last turned away missed a required
\* field, was answered 400 and had issued no call to the store or the
\* identity provider; and no request missing a field ever got past
\* validation into a handler that awaits a call.
C5_RejectedUntouched ==
    /\ rejected.kind = "createPost" =>
          C5_PostMissing(rejected.body) /\ rejected.status = 400 /\ rejected.calls = <<>>
    /\ rejected.kind = "createComment" =>
          C5_CommentMissing(rejected.body) /\ rejected.status = 400 /\ rejected.calls = <<>>
    /\ \A r \in Req :
          /\ req[r].kind = "createPost" => ~C5_PostMissing(req[r].body)
          /\ req[r].kind = "createComment" => ~C5_CommentMissing(req[r].body)

\* C5: validation precedes all store access.  A POST /api/posts missing any of
\* type, title, content, userId and a POST /api/comments missing any of
\* postId, content, userId is answered 400 with no call issued, and the step
\* that answers it leaves the stored posts and comments as they were.
C5_ValidationFirst ==
    /\ []C5_RejectedUntouched
    /\ [][rejected' # rejected => (posts' = posts /\ comments' = comments)]_vars

\* POST /api/posts without a title (everything else given) answered 400 with
\* no call issued.
C5_NoTitleRejected ==
    /\ rejected.kind = "createPost"
    /\ rejected.body = [type |-> "text", title |-> "", content |-> "c",
                        userId |-> "u1", recipe |-> "null"]
    /\ rejected.status = 400 /\ rejected.calls = <<>>
    /\ posts = <<InitialPost>>

LikeRequests == {r \in Req : req[r].kind = "like"}

\* C6: LikePost answers 404 when the post id is unknown to the store, 500 when
\* the read of the like count fails and 500 when the write fails; none of
\* these is a success, and the step that answers one leaves the stored like
\* counts unchanged.
C6_LikeFailuresByCause ==
    /\ [](\A r \in LikeRequests : req[r].pc = "done" =>
            /\ req[r].loc.fetchError = "PGRST116" => req[r].status = 404
            /\ req[r].loc.fetchError = "failure" => req[r].status = 500
            /\ (req[r].loc.fetchError = "none" /\ req[r].loc.updateError)
                    => req[r].status = 500)
    /\ [][\A r \in Req :
            (req[r].kind = "like" /\ req[r].pc # "done" /\ req'[r].pc = "done"
                /\ req'[r].status # 200)
            => \A i \in 1..Len(posts) : posts'[i].likes = posts[i].likes]_vars

\* C7: GET /api/posts/:id answers 200 with {post} when the store returns the
\* post with that id and 404 when the store holds none, and it writes nothing
\* to the store.
C7_GetPostFound ==
    /\ [](\A r \in Req : (req[r].kind = "getPost" /\ req[r].pc = "done") =>
            /\ (req[r].loc.error = "none" /\ req[r].loc.post # {}) =>
                  /\ req[r].status = 200
                  /\ "post" \in DOMAIN req[r].resp
            /\ req[r].loc.error = "PGRST116" => req[r].status = 404)
    /\ [][\A r \in Req : req'[r].kind = "getPost" =>
            (posts' = posts /\ comments' = comments)]_vars

\* The Display Identity C8 describes, for a raw identity record u.
C8_FullName(u) ==
    IF Truthy(u.full_name) THEN Val(u.full_name)
    ELSE IF Truthy(u.name) THEN Val(u.name) ELSE emailPrefix(u.email)

C8_Handle(u) ==
    LET firstToken == split(C8_FullName(u), " ")[1]
    IN  IF Truthy(u.username) THEN Val(u.username)
        ELSE IF firstToken # <<>> /\ firstToken # emailPrefix(u.email) THEN firstToken
        ELSE emailPrefix(u.email)

C8_AccountType(u) ==
    IF Truthy(u.account_type) THEN Val(u.account_type) ELSE <<"f","r","e","e">>

\* C8: the Display Identity the feed, comment and create responses use
\* follows the refined chain: fullName = full_name, else name, else the email
\* local-part; handle = username, else the first token of fullName if it
\* differs from the email local-part, else the email local-part;
\* accountType = account_type, else "free".
C8_RefinedFallbackChain ==
    \A i \in authOut :
        /\ i.fullName = C8_FullName(authIn)
        /\ i.username = C8_Handle(authIn)
        /\ i.accountType = C8_AccountType(authIn)

Unresolved(row, users) == \A u \in users : u.id # row.user_id

AnonymousAuthor ==
    [name |-> <<"A","n","o","n","y","m","o","u","s">>,
     username |-> <<"a","n","o","n","y","m","o","u","s">>,
     avatar |-> <<"A">>]

\* C9: GET /api/posts and GET /api/comments/:postId, once the store has
\* returned rows, answer 200 with one item per row in the rows' order, and
\* every row whose creator the identity lookup did not resolve (the lookup
\* having failed included) has author Anonymous / anonymous / "A".
C9_AnonymousFallback ==
    \A r \in Req :
        /\ (req[r].kind = "getPosts" /\ req[r].pc = "done" /\ "posts" \in DOMAIN req[r].loc) =>
              /\ req[r].status = 200
              /\ Len(req[r].resp.posts) = Len(req[r].loc.posts)
              /\ \A k \in 1..Len(req[r].loc.posts) :
                    /\ req[r].resp.posts[k].id = req[r].loc.posts[k].id
                    /\ Unresolved(req[r].loc.posts[k], req[r].loc.users)
                          => req[r].resp.posts[k].author = AnonymousAuthor
        /\ (req[r].kind = "getComments" /\ req[r].pc = "done"
                /\ "comments" \in DOMAIN req[r].loc) =>
              /\ req[r].status = 200
              /\ Len(req[r].resp.comments) = Len(req[r].loc.comments)
              /\ \A k \in 1..Len(req[r].loc.comments) :
                    /\ req[r].resp.comments[k].id = req[r].loc.comments[k].id
                    /\ Unresolved(req[r].loc.comments[k], req[r].loc.users)
                          => req[r].resp.comments[k].author = AnonymousAuthor

\* A feed of two posts answered 200: the first post's author resolved, the
\* second's not.
C9_MixedFeed ==
    \E r \in Req :
        /\ req[r].kind = "getPosts" /\ req[r].pc = "done" /\ req[r].status = 200
        /\ Len(req[r].resp.posts) = 2
        /\ ~Unresolved(req[r].loc.posts[1], req[r].loc.users)
        /\ req[r].resp.posts[1].author # AnonymousAuthor
        /\ Unresolved(req[r].loc.posts[2], req[r].loc.users)
        /\ req[r].resp.posts[2].author = AnonymousAuthor

CreatedPosts == {r \in Req : req[r].kind = "createPost" /\ req[r].status = 201}

\* C10: no stored post of a type other than "recipe" has a recipe
\* substructure, whatever the request carried; a post created with type
\* "recipe" and a recipe payload is stored with that payload and answered
\* with it in the response's recipe field.
C10_RecipeOnlyOnRecipePosts ==
    /\ \A i \in 1..Len(posts) : posts[i].type # "recipe" => posts[i].recipe_data = "null"
    /\ \A r \in CreatedPosts :
          (req[r].body.type = "recipe" /\ req[r].body.recipe # "null") =>
              /\ req[r].resp.post.recipe = req[r].body.recipe
              /\ posts[req[r].resp.post.id].recipe_data = req[r].body.recipe

\* A text post created from a request that carried a recipe payload, next to
\* a recipe post created with the same payload.
C10_TextWithPayloadAndRecipe ==
    \E r1, r2 \in CreatedPosts :
        /\ req[r1].body.type = "text" /\ req[r1].body.recipe = "r1"
        /\ posts[req[r1].resp.post.id].recipe_data = "null"
        /\ req[r2].body.type = "recipe" /\ req[r2].body.recipe = "r1"
        /\ req[r2].resp.post.recipe = "r1"

\* The stored Comment Records that reference post i.
storedComments(i) == {k \in 1..Len(comments) : comments[k].post_id = i}

\* The comment requests whose insert succeeded and whose rpc on post i is
\* still to be answered.
C11_Incrementing(i) ==
    {r \in CommentRequests :
        /\ req[r].pc = "rpc" /\ ~req[r].loc.commentError
        /\ req[r].body.postId = i
        /\ req[r].loc.newComment.id \in storedComments(i)}

C11_CountWithinComments ==
    \A i \in 1..Len(posts) : posts[i].comment_count <= Cardinality(storedComments(i))

C11_CountStep ==
    /\ Len(posts') >= Len(posts)
    /\ \A i \in 1..Len(posts') :
          IF i > Len(posts)
          THEN posts'[i].comment_count = 0
          ELSE \/ posts'[i].comment_count = posts[i].comment_count
               \/ /\ posts'[i].comment_count = posts[i].comment_count + 1
                  /\ \E r \in C11_Incrementing(i) : req'[r].pc = "done"

\* C11: in every reachable state, under any interleaving of CreatePost,
\* LikePost and CreateComment requests with failing inserts and increments
\* allowed, no post's comment_count exceeds the number of stored Comment
\* Records that reference it; and in every step a new post starts with
\* comment_count 0, no post is removed, and a stored comment_count either
\* stays as it is or grows by exactly 1 in the step that answers the rpc of a
\* comment request whose insert had succeeded on that post.
C11_CommentCountUnderCounts ==
    /\ []C11_CountWithinComments
    /\ [][C11_CountStep]_vars

\* A post created through CreatePost was liked (200) and commented (201, the
\* increment having succeeded): its likes are 1 and its comment_count is 1,
\* with the one Comment Record that references it stored.
C11_LikedAndCommented ==
    \E p \in CreatedPosts :
        LET i == req[p].resp.post.id
        IN  /\ posts[i].likes = 1
            /\ posts[i].comment_count = 1
            /\ Cardinality(storedComments(i)) = 1
            /\ \E l \in LikeRequests :
                  req[l].pc = "done" /\ req[l].status = 200 /\ req[l].body.id = i
            /\ \E r \in CommentRequests :
                  /\ req[r].pc = "done" /\ req[r].status = 201
                  /\ req[r].body.postId = i /\ ~req[r].loc.updateError

====
